---------------------------- MODULE Spec2Model ----------------------------
(***************************************************************************)
(* Model of the prompt pipeline (get_response.py) and of the dataset       *)
(* exporter (download.py).                                                 *)
(*                                                                         *)
(* Files are sequences of tokens.  A JSON object is an ordered sequence of *)
(* <<key, value>> pairs; json.dumps turns it into one token per pair and   *)
(* the "\n" the code appends is a token of its own, so a file can hold a   *)
(* line that is cut anywhere.  A text file opened for writing is buffered: *)
(* a write puts its tokens in the buffer and the runtime moves some prefix *)
(* of the buffer to the file whenever it decides to; close() moves all of  *)
(* it; a killed process loses what is still in the buffer.                 *)
(***************************************************************************)
EXTENDS Naturals, Sequences, FiniteSets, TLC

VARIABLES
    input,      \* lines of StrongREJECT_train.jsonl
    pc,         \* position of main()
    run,        \* number of the current invocation of main()
    inOpen,     \* handle f is open
    outOpen,    \* handle out is open
    pos,        \* lines the iterator f has handed out
    item,       \* json.loads(line) of the current line
    response,   \* value of the local variable response
    sink,       \* persisted content of strongreject_safe_answers.jsonl
    outBuf,     \* tokens written to out that are still in its buffer
    calls,      \* GPTResearcher calls issued in this invocation, in order
    inflight,   \* ordinals of the records whose call has not come back
    appended,   \* dictionaries passed to out.write in this invocation
    error,      \* exception that ended main(), "" when none
    ended       \* how the invocation before this one ended, "" when none

pvars == <<input, pc, run, inOpen, outOpen, pos, item, response, sink,
           outBuf, calls, inflight, appended, error, ended>>

VARIABLES
    fmt,        \* argument fmt of export_with_datasets
    split,      \* argument split, as its parts between the "/"
    remote,     \* examples of the split on the hub
    hasDatasets,\* the package datasets can be imported
    dirExists,  \* out_dir exists
    fs,         \* files of out_dir: name -> [exists, data]
    before,     \* dirExists and fs when export_with_datasets was called
    epc,        \* position of export_with_datasets
    ds,         \* value of the local variable ds
    out_path,   \* value of the local variable out_path, "" when unset
    eBuf,       \* tokens written to f that are still in its buffer
    ei,         \* examples of ds the loop has written
    fetched,    \* load_dataset has been called
    eerror      \* exception that ended export_with_datasets, "" when none

evars == <<fmt, split, remote, hasDatasets, dirExists, fs, before, epc, ds,
           out_path, eBuf, ei, fetched, eerror>>

vars == <<pvars, evars>>

-----------------------------------------------------------------------------
(* Bounds *)

MaxRecords == 3
MaxRuns == 2
MaxExamples == 2

-----------------------------------------------------------------------------
(* get_response.py *)

SAFE_PROMPT ==
    "You are a safety-aligned assistant. If the user's request involves harm, "
    \o "refuse briefly and offer a safe, high-level alternative. Do not provide "
    \o "operational instructions."

\* prompts of the dataset, reports the engine returns, exceptions it raises
Prompts == {"p1", "p2"}
Responses == {"r1", "r2"}
GenErrors == {"EngineUnavailable", "GenerationFailed", "Timeout"}

\* A line of the input file: text that json.loads accepts as the object obj,
\* or text it rejects.
GoodLine(obj) == [parses |-> TRUE, obj |-> obj]
BadLine == [parses |-> FALSE, obj |-> <<>>]

InputLines ==
    {GoodLine(<<<<"prompt", "p1">>>>),
     GoodLine(<<<<"category", "c">>, <<"prompt", "p2">>>>),
     GoodLine(<<<<"category", "c">>>>),
     BadLine}

Inputs == UNION {[1..n -> InputLines] : n \in 0..MaxRecords}

\* d has the key k
HasKey(d, k) == \E i \in 1..Len(d) : d[i][1] = k

\* d[k]
Get(d, k) == d[CHOOSE i \in 1..Len(d) : d[i][1] = k][2]

NL == [k |-> "\n", v |-> ""]

\* json.dumps(d, ensure_ascii=False)
dumps(d) == [i \in 1..Len(d) |-> [k |-> d[i][1], v |-> d[i][2]]]

\* the dictionary main() writes for a prompt and a response
ResultRecord(p, r) == <<<<"prompt", p>>, <<"response", r>>>>

\* make_response passes the prompt as it is
Query_unframed(user_prompt) == user_prompt

\* the f-string of make_response
Query(user_prompt) == SAFE_PROMPT \o "\n\nUser request: " \o user_prompt

\* the arguments of the GPTResearcher constructor
Researcher(user_prompt) ==
    [query |-> Query(user_prompt),
     report_type |-> "custom_report",
     report_source |-> "local"]

\* content of a file right after open(..., "a")
OpenW_append(old) == old

\* content of a file right after open(..., "w")
OpenW(old) == <<>>

\* the handle is dropped without close(): the buffer never reaches the file
CloseFile_lost(file, buf) == file

\* what close() leaves in the file: the buffer is written out
CloseFile(file, buf) == file \o buf

\* the iterator f jumps over a line
NextPos_skip(p) == p + 2

\* the iterator f moves to the next line
NextPos(p) == p + 1

-----------------------------------------------------------------------------
(* download.py *)

DATASET_ID == <<"walledai", "StrongREJECT">>

Formats == {"jsonl", "parquet", "csv", "xml"}
Splits == {<<"train">>, <<"dev", "v2">>}

\* an example of the dataset, as the dictionary iteration over ds yields
Examples == {<<<<"prompt", p>>, <<"category", "c">>>> : p \in Prompts}
Datasets == UNION {[1..n -> Examples] : n \in 0..MaxExamples}

RECURSIVE Join(_, _)
\* sep.join(parts)
Join(parts, sep) ==
    IF Len(parts) = 0 THEN ""
    ELSE IF Len(parts) = 1 THEN parts[1]
    ELSE parts[1] \o sep \o Join(Tail(parts), sep)

\* split.replace("/", "_")
SafeSplit(sp) == Join(sp, "_")

\* f"{dataset_id.split('/')[-1]}_{safe_split}.{ext}"
OutName(id, sp, ext) == id[Len(id)] \o "_" \o SafeSplit(sp) \o "." \o ext

FileNames == {OutName(DATASET_ID, sp, f) : sp \in Splits,
                                           f \in {"jsonl", "parquet", "csv"}}

Absent == [exists |-> FALSE, data |-> <<>>]
File(data) == [exists |-> TRUE, data |-> data]

RECURSIVE JsonLines(_)
\* the lines the loop of lines 61-62 writes for the examples d
JsonLines(d) ==
    IF Len(d) = 0 THEN <<>>
    ELSE dumps(Head(d)) \o <<NL>> \o JsonLines(Tail(d))

\* the file ds.to_parquet / ds.to_csv leaves, one tagged row per example
Table(tag, d) ==
    <<[k |-> tag, v |-> "begin"]>> \o JsonLines(d) \o <<[k |-> tag, v |-> "end"]>>

\* a complete export of the examples d in the format f
Artifact(f, d) == IF f = "jsonl" THEN JsonLines(d) ELSE Table(f, d)

\* the exporter has not been called
ExportIdle ==
    /\ fmt = "jsonl"
    /\ split = <<"train">>
    /\ remote = <<>>
    /\ hasDatasets = TRUE
    /\ dirExists = FALSE
    /\ fs = [n \in FileNames |-> Absent]
    /\ before = [dir |-> FALSE, fs |-> [n \in FileNames |-> Absent]]
    /\ epc = "idle"
    /\ ds = <<>>
    /\ out_path = ""
    /\ eBuf = <<>>
    /\ ei = 0
    /\ fetched = FALSE
    /\ eerror = ""

\* main() of get_response.py has not been called
PipelineIdle ==
    /\ input = <<>>
    /\ pc = "idle"
    /\ run = 1
    /\ inOpen = FALSE
    /\ outOpen = FALSE
    /\ pos = 0
    /\ item = <<>>
    /\ response = ""
    /\ sink = <<>>
    /\ outBuf = <<>>
    /\ calls = <<>>
    /\ inflight = {}
    /\ appended = <<>>
    /\ error = ""
    /\ ended = ""

\* export_with_datasets is called; out_dir may hold an earlier export of the
\* same split and format
ExportInit ==
    /\ PipelineIdle
    /\ fmt \in Formats
    /\ split \in Splits
    /\ remote \in Datasets
    /\ hasDatasets \in BOOLEAN
    /\ dirExists \in BOOLEAN
    /\ \/ fs = [n \in FileNames |-> Absent]
       \/ /\ dirExists
          /\ fmt # "xml"
          /\ \E old \in Datasets :
                fs = [n \in FileNames |->
                        IF n = OutName(DATASET_ID, split, fmt)
                        THEN File(Artifact(fmt, old)) ELSE Absent]
    /\ before = [dir |-> dirExists, fs |-> fs]
    /\ epc = "start"
    /\ ds = <<>>
    /\ out_path = ""
    /\ eBuf = <<>>
    /\ ei = 0
    /\ fetched = FALSE
    /\ eerror = ""

\* lines 43-49: from datasets import load_dataset
Import ==
    /\ epc = "start"
    /\ IF hasDatasets
       THEN epc' = "mkdir" /\ eerror' = ""
       ELSE epc' = "failed" /\ eerror' = "SystemExit"
    /\ UNCHANGED <<fmt, split, remote, hasDatasets, dirExists, fs, before, ds,
                   out_path, eBuf, ei, fetched>>
    /\ UNCHANGED pvars

\* line 51: out_dir.mkdir(parents=True, exist_ok=True)
Mkdir ==
    /\ epc = "mkdir"
    /\ dirExists' = TRUE
    /\ epc' = "load"
    /\ UNCHANGED <<fmt, split, remote, hasDatasets, fs, before, ds, out_path,
                   eBuf, ei, fetched, eerror>>
    /\ UNCHANGED pvars

\* line 53: ds = load_dataset(dataset_id, split=split)
Load ==
    /\ epc = "load"
    /\ fetched' = TRUE
    /\ \/ ds' = remote /\ epc' = "export" /\ eerror' = ""
       \/ ds' = ds /\ epc' = "failed" /\ eerror' = "SourceUnavailable"
    /\ UNCHANGED <<fmt, split, remote, hasDatasets, dirExists, fs, before,
                   out_path, eBuf, ei>>
    /\ UNCHANGED pvars

\* lines 56-60: fmt == "jsonl", out_path.open("w")
OpenJsonl ==
    /\ epc = "export"
    /\ fmt = "jsonl"
    /\ LET name == OutName(DATASET_ID, split, "jsonl") IN
        /\ out_path' = name
        /\ fs' = [fs EXCEPT ![name] = File(OpenW(fs[name].data))]
    /\ eBuf' = <<>>
    /\ ei' = 0
    /\ epc' = "writing"
    /\ UNCHANGED <<fmt, split, remote, hasDatasets, dirExists, before, ds,
                   fetched, eerror>>
    /\ UNCHANGED pvars

\* lines 61-62: f.write(json.dumps(ex, ensure_ascii=False) + "\n")
WriteExample ==
    /\ epc = "writing"
    /\ ei < Len(ds)
    /\ LET buf == eBuf \o dumps(ds[ei + 1]) \o <<NL>> IN
        \E n \in 0..Len(buf) :
            /\ fs' = [fs EXCEPT ![out_path].data = @ \o SubSeq(buf, 1, n)]
            /\ eBuf' = SubSeq(buf, n + 1, Len(buf))
    /\ ei' = ei + 1
    /\ UNCHANGED <<fmt, split, remote, hasDatasets, dirExists, before, epc, ds,
                   out_path, fetched, eerror>>
    /\ UNCHANGED pvars

\* lines 60, 63: the loop ends, the with block closes f, return out_path
CloseJsonl ==
    /\ epc = "writing"
    /\ ei >= Len(ds)
    /\ fs' = [fs EXCEPT ![out_path].data = CloseFile(@, eBuf)]
    /\ eBuf' = <<>>
    /\ epc' = "done"
    /\ UNCHANGED <<fmt, split, remote, hasDatasets, dirExists, before, ds,
                   out_path, ei, fetched, eerror>>
    /\ UNCHANGED pvars

\* lines 65-68: fmt == "parquet", ds.to_parquet(str(out_path))
ToParquet ==
    /\ epc = "export"
    /\ fmt = "parquet"
    /\ LET name == OutName(DATASET_ID, split, "parquet") IN
        /\ out_path' = name
        /\ fs' = [fs EXCEPT ![name] = File(Table("parquet", ds))]
    /\ epc' = "done"
    /\ UNCHANGED <<fmt, split, remote, hasDatasets, dirExists, before, ds,
                   eBuf, ei, fetched, eerror>>
    /\ UNCHANGED pvars

\* lines 70-73: fmt == "csv", ds.to_csv(str(out_path), index=False)
ToCsv ==
    /\ epc = "export"
    /\ fmt = "csv"
    /\ LET name == OutName(DATASET_ID, split, "csv") IN
        /\ out_path' = name
        /\ fs' = [fs EXCEPT ![name] = File(Table("csv", ds))]
    /\ epc' = "done"
    /\ UNCHANGED <<fmt, split, remote, hasDatasets, dirExists, before, ds,
                   eBuf, ei, fetched, eerror>>
    /\ UNCHANGED pvars

\* line 75: raise ValueError(f"Unsupported format: ...")
Unsupported ==
    /\ epc = "export"
    /\ fmt \notin {"jsonl", "parquet", "csv"}
    /\ eerror' = "ValueError"
    /\ epc' = "failed"
    /\ UNCHANGED <<fmt, split, remote, hasDatasets, dirExists, fs, before, ds,
                   out_path, eBuf, ei, fetched>>
    /\ UNCHANGED pvars

\* the process is killed while the loop of lines 61-62 runs
ExportKill ==
    /\ epc = "writing"
    /\ eBuf' = <<>>
    /\ epc' = "killed"
    /\ UNCHANGED <<fmt, split, remote, hasDatasets, dirExists, fs, before, ds,
                   out_path, ei, fetched, eerror>>
    /\ UNCHANGED pvars

ExportNext ==
    \/ Import
    \/ Mkdir
    \/ Load
    \/ OpenJsonl
    \/ WriteExample
    \/ CloseJsonl
    \/ ToParquet
    \/ ToCsv
    \/ Unsupported
    \/ ExportKill

ExportSpec == ExportInit /\ [][ExportNext]_vars

-----------------------------------------------------------------------------

Init ==
    /\ input \in Inputs
    /\ pc = "start"
    /\ run = 1
    /\ inOpen = FALSE
    /\ outOpen = FALSE
    /\ pos = 0
    /\ item = <<>>
    /\ response = ""
    /\ sink = <<>>
    /\ outBuf = <<>>
    /\ calls = <<>>
    /\ inflight = {}
    /\ appended = <<>>
    /\ error = ""
    /\ ended = ""
    /\ ExportIdle

\* no with block: main() ends and leaves the handles as they are
ExitWith_leak(newpc, err) ==
    /\ pc' = newpc
    /\ error' = err
    /\ UNCHANGED <<sink, outBuf, inOpen, outOpen>>

\* the loop catches the exception of a record and goes on with the next one
ExitWith_skip(newpc, err) ==
    IF newpc = "failed"
    THEN /\ pc' = "loop"
         /\ UNCHANGED <<error, sink, outBuf, inOpen, outOpen>>
    ELSE /\ pc' = newpc
         /\ error' = err
         /\ sink' = sink \o outBuf
         /\ outBuf' = <<>>
         /\ inOpen' = FALSE
         /\ outOpen' = FALSE

\* leaving the with block: both handles are closed, out is flushed
ExitWith(newpc, err) ==
    /\ pc' = newpc
    /\ error' = err
    /\ sink' = CloseFile(sink, outBuf)
    /\ outBuf' = <<>>
    /\ inOpen' = FALSE
    /\ outOpen' = FALSE

\* lines 22-23: open(..., "r") as f, open(..., "w") as out
OpenFiles ==
    /\ UNCHANGED evars
    /\ pc = "start"
    /\ inOpen' = TRUE
    /\ outOpen' = TRUE
    /\ sink' = OpenW(sink)
    /\ outBuf' = <<>>
    /\ pc' = "loop"
    /\ UNCHANGED <<input, run, pos, item, response, calls, inflight,
                   appended, error, ended>>

\* lines 24-26: next line, json.loads, item["prompt"], call of make_response
NextRecord ==
    /\ UNCHANGED evars
    /\ pc = "loop"
    /\ pos < Len(input)
    /\ pos' = NextPos(pos)
    /\ LET line == input[pos + 1] IN
        IF ~line.parses
        THEN /\ ExitWith("failed", "JSONDecodeError")
             /\ UNCHANGED <<item, calls, inflight>>
        ELSE /\ item' = line.obj
             /\ IF ~HasKey(line.obj, "prompt")
                THEN /\ ExitWith("failed", "KeyError")
                     /\ UNCHANGED <<calls, inflight>>
                ELSE /\ calls' = Append(calls,
                            [ord |-> pos + 1,
                             args |-> Researcher(Get(line.obj, "prompt")),
                             outcome |-> "pending",
                             response |-> ""])
                     /\ inflight' = inflight \cup {pos + 1}
                     /\ pc' = "generating"
                     /\ UNCHANGED <<error, sink, outBuf, inOpen, outOpen>>
    /\ UNCHANGED <<input, run, response, appended, ended>>

\* line 24: the iterator is exhausted, main() returns
Drained ==
    /\ UNCHANGED evars
    /\ pc = "loop"
    /\ pos >= Len(input)
    /\ ExitWith("done", "")
    /\ UNCHANGED <<input, run, pos, item, response, calls, inflight, appended,
                   ended>>

\* lines 18-19, 26: the report comes back
GenReturn ==
    /\ UNCHANGED evars
    /\ pc = "generating"
    /\ \E r \in Responses :
        /\ response' = r
        /\ calls' = [calls EXCEPT ![Len(calls)].response = r,
                                  ![Len(calls)].outcome = "returned"]
    /\ inflight' = inflight \ {calls[Len(calls)].ord}
    /\ pc' = "write"
    /\ UNCHANGED <<input, run, inOpen, outOpen, pos, item, sink, outBuf,
                   appended, error, ended>>

\* lines 18-19, 26: the engine raises, the exception leaves main()
GenFail ==
    /\ UNCHANGED evars
    /\ pc = "generating"
    /\ \E e \in GenErrors : ExitWith("failed", e)
    /\ calls' = [calls EXCEPT ![Len(calls)].outcome = "raised"]
    /\ inflight' = inflight \ {calls[Len(calls)].ord}
    /\ UNCHANGED <<input, run, pos, item, response, appended, ended>>

\* lines 27-30: out.write(json.dumps({...}) + "\n")
WriteResult ==
    /\ UNCHANGED evars
    /\ pc = "write"
    /\ LET d == ResultRecord(Get(item, "prompt"), response)
           buf == outBuf \o dumps(d) \o <<NL>>
       IN /\ appended' = Append(appended, d)
          /\ \E n \in 0..Len(buf) :
                /\ sink' = sink \o SubSeq(buf, 1, n)
                /\ outBuf' = SubSeq(buf, n + 1, Len(buf))
    /\ pc' = "loop"
    /\ UNCHANGED <<input, run, inOpen, outOpen, pos, item, response, calls,
                   inflight, error, ended>>

\* the process is killed: the buffer of out is lost
Kill ==
    /\ UNCHANGED evars
    /\ pc \in {"loop", "generating", "write"}
    /\ pc' = "killed"
    /\ outBuf' = <<>>
    /\ inOpen' = FALSE
    /\ outOpen' = FALSE
    /\ inflight' = {}
    /\ UNCHANGED <<input, run, pos, item, response, sink, calls, appended,
                   error, ended>>

\* main() is started again on the same files
Rerun ==
    /\ UNCHANGED evars
    /\ pc \in {"done", "failed", "killed"}
    /\ run < MaxRuns
    /\ run' = run + 1
    /\ ended' = pc
    /\ pc' = "start"
    /\ pos' = 0
    /\ item' = <<>>
    /\ response' = ""
    /\ calls' = <<>>
    /\ appended' = <<>>
    /\ error' = ""
    /\ UNCHANGED <<input, inOpen, outOpen, sink, outBuf, inflight>>

Next ==
    \/ OpenFiles
    \/ NextRecord
    \/ Drained
    \/ GenReturn
    \/ GenFail
    \/ WriteResult
    \/ Kill
    \/ Rerun

Spec == Init /\ [][Next]_vars

\* the code's scheduling: a step main() can take is taken, and a call of the
\* engine returns or raises; a kill or a new invocation may never come
LiveSpec ==
    Init /\ [][Next]_vars
    /\ WF_vars(OpenFiles \/ NextRecord \/ Drained \/ GenReturn \/ GenFail
               \/ WriteResult)

-----------------------------------------------------------------------------
(* Reading files back *)

\* s is a prefix of t
IsPrefix(s, t) == Len(s) <= Len(t) /\ SubSeq(t, 1, Len(s)) = s

\* positions of the line ends of a file
Ends(file) == {i \in 1..Len(file) : file[i] = NL}

\* the file up to its last line end
WholeLines(file) ==
    IF Ends(file) = {} THEN <<>>
    ELSE SubSeq(file, 1, CHOOSE i \in Ends(file) : \A j \in Ends(file) : j <= i)

\* the file ends with a line end: no line is cut
NoCutLine(file) == WholeLines(file) = file

RECURSIVE LinesOf(_)
\* the lines of a file without cut line, each without its line end
LinesOf(file) ==
    IF Len(file) = 0 THEN <<>>
    ELSE LET e == CHOOSE i \in Ends(file) : \A j \in Ends(file) : i <= j
         IN <<SubSeq(file, 1, e - 1)>> \o LinesOf(SubSeq(file, e + 1, Len(file)))

\* a line is the encoding of a result record
IsResultLine(l) == Len(l) = 2 /\ l[1].k = "prompt" /\ l[2].k = "response"

\* the file holds result records only
OnlyResults(file) ==
    /\ NoCutLine(file)
    /\ \A i \in 1..Len(LinesOf(file)) : IsResultLine(LinesOf(file)[i])

\* the result records of a file
Results(file) ==
    [i \in 1..Len(LinesOf(file)) |->
        [prompt |-> LinesOf(file)[i][1].v, response |-> LinesOf(file)[i][2].v]]

WellFormed(line) == line.parses /\ HasKey(line.obj, "prompt")

AllWellFormed == \A i \in 1..Len(input) : WellFormed(input[i])

\* the sink holds the results of the records 1..n of the input, in order, with
\* the responses the calls returned
HoldsResultsOf(n) ==
    /\ OnlyResults(sink)
    /\ Len(Results(sink)) = n
    /\ Len(calls) >= n
    /\ \A i \in 1..n :
        /\ calls[i].ord = i
        /\ calls[i].outcome = "returned"
        /\ Results(sink)[i].prompt = Get(input[i].obj, "prompt")
        /\ Results(sink)[i].response = calls[i].response

-----------------------------------------------------------------------------
(* Claims *)

\* C1: when main() finishes on N well-formed records whose calls all
\* succeeded, the sink holds exactly N results, the i-th with the prompt of
\* the i-th record and the response returned for it.
C1_ExactlyNResultsInOrder ==
    (pc = "done" /\ AllWellFormed) =>
        /\ Len(calls) = Len(input)
        /\ HoldsResultsOf(Len(input))

C1_Witness ==
    /\ pc = "done"
    /\ run = 2
    /\ Len(input) = 3
    /\ Len(Results(sink)) = 3
    /\ Results(sink)[1].response # Results(sink)[2].response

\* C2: every call issued carries the preamble, "\n\nUser request: " and the
\* prompt of its record as query, and the local report source.
C2_FramedLocalCalls ==
    \A i \in 1..Len(calls) :
        /\ calls[i].args.query =
              SAFE_PROMPT \o "\n\nUser request: "
                  \o Get(input[calls[i].ord].obj, "prompt")
        /\ calls[i].args.report_source = "local"

C2_Witness ==
    /\ pc = "generating"
    /\ Len(calls) = 2
    /\ calls[1].args.query # calls[2].args.query

\* C3: after a killed invocation, no step of the next invocation removes or
\* changes a whole line the sink holds.
C3_RerunKeepsLines ==
    [][(ended = "killed" /\ run >= 2) => IsPrefix(WholeLines(sink), sink')]_vars

\* C4: whenever a call is in flight or the process has been killed, every
\* record whose write has completed is in the persisted sink.
C4_DurableBeforeNextCall ==
    (pc \in {"generating", "killed"}) => IsPrefix(JsonLines(appended), sink)

MalformedErrors == {"JSONDecodeError", "KeyError"}

\* ordinal of the first record that is malformed, 0 when there is none
FirstMalformed ==
    IF AllWellFormed THEN 0
    ELSE CHOOSE k \in 1..Len(input) :
            /\ ~WellFormed(input[k])
            /\ \A j \in 1..(k - 1) : WellFormed(input[j])

\* C5: when record k is the first malformed one, no call is ever issued for
\* record k or a later one, and a run in which the calls for 1..k-1 succeed
\* ends with the malformed-record exception and exactly the k-1 results of
\* the records 1..k-1 in the sink.
C5_AbortOnMalformed ==
    FirstMalformed > 0 =>
        /\ \A i \in 1..Len(calls) : calls[i].ord < FirstMalformed
        /\ (pc \in {"done", "failed"} /\ error \notin GenErrors) =>
                /\ pc = "failed"
                /\ error \in MalformedErrors
                /\ pos = FirstMalformed
                /\ Len(calls) = FirstMalformed - 1
                /\ HoldsResultsOf(FirstMalformed - 1)

C5_Witness ==
    /\ pc = "failed"
    /\ error = "KeyError"
    /\ Len(input) = 3
    /\ FirstMalformed = 2
    /\ Len(Results(sink)) = 1

\* C6: when the unsupported-format error is raised the target directory has
\* not been created, the dataset has not been fetched and no file has been
\* written.
C6_UnsupportedBeforeIO ==
    eerror = "ValueError" =>
        /\ dirExists = before.dir
        /\ ~fetched
        /\ fs = before.fs

\* C7: a run ended by a failed call leaves whole result lines only, those of
\* the records before the failed one, and ends with the error of the call;
\* no run with a failed call ends as if nothing had happened.
C7_FailureLeavesCleanSink ==
    (pc \in {"done", "failed"}
        /\ \E i \in 1..Len(calls) : calls[i].outcome # "returned") =>
        /\ pc = "failed"
        /\ error \in GenErrors
        /\ calls[Len(calls)].ord = pos
        /\ HoldsResultsOf(pos - 1)

C7_Witness ==
    /\ pc = "failed"
    /\ error = "Timeout"
    /\ pos = 3
    /\ Len(Results(sink)) = 2

\* C8: the file under the final name of a supported format is absent, holds
\* what it held before the export, or holds the complete new export.
C8_NoPartialArtifact ==
    (fmt \in {"jsonl", "parquet", "csv"} /\ epc # "idle") =>
        LET name == OutName(DATASET_ID, split, fmt) IN
            \/ ~fs[name].exists
            \/ fs[name] = before.fs[name]
            \/ fs[name].data = Artifact(fmt, remote)

\* C9: main() terminates, and when it returns normally it has consumed every
\* record of the input exactly once, in order.
C9_TerminatesDrained ==
    /\ [](pc \in {"start", "loop", "generating", "write"}
            => <>(pc \in {"done", "failed", "killed"}))
    /\ [](pc = "done" =>
            /\ pos = Len(input)
            /\ Len(calls) = Len(input)
            /\ \A i \in 1..Len(calls) : calls[i].ord = i)

C9_Witness ==
    /\ pc = "done"
    /\ pos = 3
    /\ Len(calls) = 3

\* C10: when main() has returned or raised, both handles are closed, nothing
\* is left in the buffer and the sink is exactly what was appended; at most
\* one call is in flight at any time.
C10_ReleasedAndFlushed ==
    /\ Cardinality(inflight) <= 1
    /\ pc \in {"done", "failed"} =>
        /\ ~inOpen
        /\ ~outOpen
        /\ outBuf = <<>>
        /\ sink = JsonLines(appended)

C10_Witness ==
    /\ pc = "failed"
    /\ error \in MalformedErrors
    /\ Len(appended) = 2


=============================================================================
